---------------------------- MODULE Spec2Model ----------------------------
(* A state-machine model of modpacker.py (Vintage Story mod packer):       *)
(* the three directories of the local store, the registry answers, the     *)
(* download task pool, install_mod_pack, install_mods_from_log and          *)
(* create_mod_pack.                                                        *)
EXTENDS Integers, Sequences, FiniteSets, TLC

(***************************************************************************)
(* Values                                                                  *)
(***************************************************************************)

\* Python's None (a JSON null, an absent argument).
None == "<None>"

\* The marker of a key that a JSON object does not carry: reading it raises
\* KeyError.
NoKey == "<no key>"

\* Bounds of the release lists the resolution is checked on.
MaxReleases == 3
MaxReleaseId == 3

(***************************************************************************)
(* Registry: GET MODDB_API_URL + modid                                     *)
(***************************************************************************)

\* mainfile values are kept as their '/'-separated segments.
Release(id, ver, file) == [releaseid |-> id, modversion |-> ver, mainfile |-> file]

\* response.json() for each mod id: hasMod says whether the answer carries
\* the 'mod' key at all, releases is mod_data['mod']['releases'].
Answer(hasMod, releases) == [hasMod |-> hasMod, releases |-> releases]

StoreAnswer(modid) ==
    CASE modid = "abc" ->
           Answer(TRUE, << Release(5, "1.0.0", <<"files", "abc_1.0.0.zip">>),
                           Release(6, "2.0.0", <<"files", "abc_2.0.0.zip">>) >>)
      [] modid = "foo" ->
           Answer(TRUE, << Release(9, "0.3", <<"files", "foo_0.3.zip">>) >>)
      [] modid = "nor" -> Answer(TRUE, << >>)
      [] OTHER -> Answer(FALSE, << >>)

(***************************************************************************)
(* download_mod: release resolution (lines 52-71)                          *)
(***************************************************************************)

\* releases.sort(key=lambda r: r['releaseid'], reverse=True): a stable sort,
\* elements of equal releaseid keep their order.
RECURSIVE InsertDesc(_, _)
InsertDesc(r, s) ==
    IF s = << >> THEN << r >>
    ELSE IF Head(s).releaseid >= r.releaseid
         THEN << Head(s) >> \o InsertDesc(r, Tail(s))
         ELSE << r >> \o s

\* The mutant: the sort without reverse=True (ascending).
RECURSIVE InsertAsc(_, _)
InsertAsc(r, s) ==
    IF s = << >> THEN << r >>
    ELSE IF Head(s).releaseid <= r.releaseid
         THEN << Head(s) >> \o InsertAsc(r, Tail(s))
         ELSE << r >> \o s

RECURSIVE SortWith(_, _)
SortWith(s, asc) ==
    IF s = << >> THEN << >>
    ELSE LET init == SubSeq(s, 1, Len(s) - 1)
             last == s[Len(s)]
         IN  IF asc THEN InsertAsc(last, SortWith(init, asc))
                    ELSE InsertDesc(last, SortWith(init, asc))

SortAscending(s) == SortWith(s, TRUE)

SortReleases(s) == SortWith(s, FALSE)

\* `if mod_version:` is false for None and for the empty string.
Truthy(v) == v \notin {None, ""}

\* for release in releases: if release['modversion'] == mod_version: break
\* (the empty sequence when the loop ends without a match)
FirstMatch(releases, mod_version) ==
    LET hits == { i \in 1..Len(releases) : releases[i].modversion = mod_version }
    IN  IF hits = {} THEN << >>
        ELSE << releases[CHOOSE i \in hits : \A j \in hits : i <= j] >>

\* Lines 57-71 on a non-empty release list: the selected release and whether
\* the "not found, attempting to use latest" message was printed.
SelectRelease(releases0, mod_version) ==
    LET releases == SortReleases(releases0)
        match == IF Truthy(mod_version) THEN FirstMatch(releases, mod_version)
                 ELSE << >>
    IN  [ release  |-> IF match = << >> THEN releases[1] ELSE match[1],
          fallback |-> Truthy(mod_version) /\ match = << >> ]

\* mod_release['mainfile'].split('/')[-1]
FileName(mainfile) == mainfile[Len(mainfile)]


(***************************************************************************)
(* Local store: paths and file contents                                    *)
(***************************************************************************)

\* Paths are sequences of segments; "/" is the root.
DATA_DIR == << "/", "VintagestoryData" >>

MODS_DIR == DATA_DIR \o << "Mods" >>

CONFIG_DIR == DATA_DIR \o << "ModConfig" >>

\* pathlib's `/` : an absolute right operand replaces the left one.
JoinPath(base, p) == IF p # << >> /\ p[1] = "/" THEN p ELSE base \o p

\* The path the operating system opens: each ".." drops the segment before
\* it (the root has no parent).
RECURSIVE NormPath(_, _)
NormPath(done, rest) ==
    IF rest = << >> THEN done
    ELSE IF Head(rest) = ".."
         THEN NormPath(IF Len(done) > 1 THEN SubSeq(done, 1, Len(done) - 1) ELSE done,
                       Tail(rest))
         ELSE NormPath(Append(done, Head(rest)), Tail(rest))

IsPrefix(a, b) == Len(a) <= Len(b) /\ SubSeq(b, 1, Len(a)) = a

\* A file of the mods directory: its name, whose bytes it holds (mod id and
\* release id; "local" and 0 for a file that was not downloaded) and whether
\* all of them are there.
ModFile(name, src, rid, full) == [name |-> name, src |-> src, rid |-> rid, full |-> full]

\* A file of the config directory: its path relative to CONFIG_DIR and
\* where its bytes come from ("local", or the name of a pack).
CfgFile(path, from) == [path |-> path, from |-> from]

\* open(path, 'wb') and the writes after it: the file at that name is replaced.
WriteFile(dir, f) == { g \in dir : g.name # f.name } \cup { f }

WriteCfg(dir, f) == { g \in dir : g.path # f.path } \cup { f }

\* for f in DIR.glob("*"): rmtree / unlink  (lines 132-134, 152-154, 304-306)
ClearDir(dir) == {}

\* Directories that exist before any extraction.
ExistingDirs == { << "/" >>, DATA_DIR, MODS_DIR, CONFIG_DIR }

\* target_path.parent.mkdir(parents=True, exist_ok=True): the directories it
\* creates that do not lie in CONFIG_DIR.
MadeOutside(target) ==
    { SubSeq(target, 1, n) : n \in 1..(Len(target) - 1) } \
        ({ d \in { SubSeq(target, 1, n) : n \in 1..(Len(target) - 1) } :
             IsPrefix(CONFIG_DIR, d) } \cup ExistingDirs)

(***************************************************************************)
(* Pack archives                                                           *)
(***************************************************************************)

Entry(name, version) == [name |-> name, version |-> version]

\* pack.json as parsed: hasMods / hasConfigs say whether the key is there.
Manifest(hasMods, mods_, hasConfigs, configs) ==
    [hasMods |-> hasMods, mods |-> mods_, hasConfigs |-> hasConfigs, configs |-> configs]

\* A zip in the packs directory: its name (with the time stamp of a backup,
\* "" otherwise), hasPackJson says whether it has a "pack.json" entry,
\* entries are the names of its other entries.
Archive(name, ts, hasPackJson, data, entries) ==
    [name |-> name, ts |-> ts, hasPackJson |-> hasPackJson, data |-> data,
     entries |-> entries]

A_JSON == << "a.json" >>
B_JSON == << "sub", "b.json" >>
UP_JSON == << "..", "evil.json" >>
ABS_JSON == << "/", "tmp", "abs.json" >>
INTO_MODS == << "..", "Mods", "old.zip" >>

UserPacks ==
    { Archive("good", "", TRUE,
              Manifest(TRUE, << Entry("abc", "1.0.0"), Entry("foo", None) >>,
                       TRUE, << A_JSON, B_JSON >>), {A_JSON, B_JSON}),
      Archive("stale", "", TRUE,
              Manifest(TRUE, << Entry("abc", "9.9"), Entry("nor", "1.0") >>,
                       TRUE, << >>), {}),
      Archive("unknown", "", TRUE,
              Manifest(TRUE, << Entry("bar", None), Entry("abc", "2.0.0") >>,
                       TRUE, << >>), {A_JSON}),
      Archive("nomanifest", "", FALSE,
              Manifest(TRUE, << Entry("foo", None) >>, TRUE, << A_JSON >>), {A_JSON}),
      Archive("nomods", "", TRUE,
              Manifest(FALSE, << >>, TRUE, << A_JSON >>), {A_JSON}),
      Archive("noconfigs", "", TRUE,
              Manifest(TRUE, << Entry("foo", "0.3") >>, FALSE, << >>), {}),
      Archive("noname", "", TRUE,
              Manifest(TRUE, << Entry(NoKey, "1.0.0") >>, TRUE, << >>), {}),
      Archive("noversion", "", TRUE,
              Manifest(TRUE, << Entry("abc", NoKey), Entry("foo", "0.3") >>,
                       TRUE, << >>), {}),
      Archive("noentry", "", TRUE,
              Manifest(TRUE, << Entry("foo", "0.3") >>, TRUE, << A_JSON, B_JSON >>),
              {A_JSON}),
      Archive("dotdot", "", TRUE,
              Manifest(TRUE, << >>, TRUE, << A_JSON, UP_JSON >>), {A_JSON, UP_JSON}),
      Archive("absolute", "", TRUE,
              Manifest(TRUE, << >>, TRUE, << ABS_JSON >>), {ABS_JSON}),
      Archive("intomods", "", TRUE,
              Manifest(TRUE, << Entry("foo", "0.3") >>, TRUE, << INTO_MODS >>),
              {INTO_MODS}),
      Archive("good_1", "", TRUE,
              Manifest(TRUE, << Entry("abc", "1.0.0"), Entry("abc", "1.0.0") >>,
                       TRUE, << >>), {}) }

(***************************************************************************)
(* User input                                                              *)
(***************************************************************************)

\* input(...).strip().lower() on the answers the model draws.
StripLower(s) ==
    CASE s = "Overwrite"  -> "overwrite"
      [] s = " MERGE "    -> "merge"
      [] s = "Ignore"     -> "ignore"
      [] s = " Y"         -> "y"
      [] s = "N"          -> "n"
      [] OTHER            -> s

OverwriteInputs == { "Overwrite", " MERGE ", "" }
MergeInputs == { " MERGE ", "" }
ConfigInputs == { "Overwrite", "Ignore" }
ConfirmInputs == { " Y", "N", "" }

(***************************************************************************)
(* State                                                                   *)
(***************************************************************************)

VARIABLES
    registry,          \* what the registry answers: mod id -> Answer
    mods,              \* MODS_DIR: the set of its ModFile
    cfg,               \* CONFIG_DIR: the set of its CfgFile
    outside,           \* paths created outside CONFIG_DIR by config extraction
    packsExists,       \* MODPACKS_DIR.exists()
    packs,             \* MODPACKS_DIR: the archives in it
    flow,              \* the menu entry running: "menu", "install", "log", "create"
    pc,                \* the main thread's position in it
    modpack,           \* chosen_modpack (a sequence of zero or one archive)
    overwrite_mods,    \* the answer of line 127
    apply_configs,     \* the answer of line 148
    ci,                \* index of the next config to extract (line 157)
    log_file,          \* the log file named at line 263 (zero or one log)
    found_mods,        \* line 280
    filtered_mods,     \* line 289
    confirm,           \* the answer of line 298
    tasks,             \* the thread pool's tasks, in submission order
    requests,          \* number of registry requests made so far
    pass,              \* which run of install_mod_pack this is
    mods0,             \* mods at the start of the run
    cfg0,              \* cfg at the start of the run
    mods1,             \* mods at the end of the first run
    tasks1,            \* the tasks at the end of the first run
    packs0,            \* packs at the start of the run
    build              \* the pack create_mod_pack is writing (zero or one)

vars == << registry, mods, cfg, outside, packsExists, packs, flow, pc, modpack,
           overwrite_mods, apply_configs, ci, log_file, found_mods, filtered_mods,
           confirm, tasks, requests, pass, mods0, cfg0, mods1, tasks1, packs0,
           build >>

fsVars == << mods, cfg, outside, packsExists, packs >>

installVars == << modpack, overwrite_mods, apply_configs, ci >>

logVars == << log_file, found_mods, filtered_mods, confirm >>

histVars == << registry, pass, mods0, cfg0, mods1, tasks1, packs0 >>

runVars == << histVars, build >>

\* mod_data = response.json() (line 50)
MOD_DATA(modid) == registry[modid]


(***************************************************************************)
(* download_mod (lines 40-93), one task of the pool                        *)
(***************************************************************************)

Task(modid, mod_version) ==
    [modid |-> modid, mod_version |-> mod_version, pc |-> "start",
     release |-> << >>, wrote |-> FALSE]

TaskEnded(t) == t.pc \in {"done", "skipped", "failed", "raised"}

\* download_mod returned True.
TaskSucceeded(t) == t.pc \in {"done", "skipped"}

poolVars == << flow, pc, installVars, logVars, runVars >>

\* Lines 45-71: the registry request and the choice of the release.
download_mod_resolve(i) ==
    /\ pc = "pool"
    /\ tasks[i].pc = "start"
    /\ requests' = requests + 1
    /\ \/ \* requests.get / raise_for_status raise a RequestException (line 91)
          tasks' = [tasks EXCEPT ![i].pc = "failed"]
       \/ \* the answer has no 'mod' entry: not a RequestException, the task raises
          /\ ~MOD_DATA(tasks[i].modid).hasMod
          /\ tasks' = [tasks EXCEPT ![i].pc = "raised"]
       \/ \* "No releases found" (lines 53-55)
          /\ MOD_DATA(tasks[i].modid).hasMod
          /\ MOD_DATA(tasks[i].modid).releases = << >>
          /\ tasks' = [tasks EXCEPT ![i].pc = "failed"]
       \/ /\ MOD_DATA(tasks[i].modid).hasMod
          /\ MOD_DATA(tasks[i].modid).releases # << >>
          /\ tasks' = [tasks EXCEPT
                ![i].pc = "check",
                ![i].release =
                    << SelectRelease(MOD_DATA(tasks[i].modid).releases,
                                     tasks[i].mod_version).release >>]
    /\ UNCHANGED << fsVars, poolVars >>

\* The mutant: the existence check always answers no.
NeverExists(dir, name) == FALSE

\* mod_file_path.exists() (line 79)
FileExists(dir, name) == \E f \in dir : f.name = name

\* Lines 74-81: "already exists, skipping download".
download_mod_check(i) ==
    /\ pc = "pool"
    /\ tasks[i].pc = "check"
    /\ tasks' = [tasks EXCEPT ![i].pc =
            IF FileExists(mods, FileName(tasks[i].release[1].mainfile))
            THEN "skipped" ELSE "request"]
    /\ UNCHANGED << fsVars, requests, poolVars >>

\* Lines 84-86: the download request, then open(mod_file_path, 'wb').
download_mod_open(i) ==
    /\ pc = "pool"
    /\ tasks[i].pc = "request"
    /\ \/ \* requests.get / raise_for_status raise a RequestException (line 91)
          /\ tasks' = [tasks EXCEPT ![i].pc = "failed"]
          /\ UNCHANGED mods
       \/ /\ tasks' = [tasks EXCEPT ![i].pc = "copy"]
          /\ mods' = WriteFile(mods,
                ModFile(FileName(tasks[i].release[1].mainfile), tasks[i].modid,
                        tasks[i].release[1].releaseid, FALSE))
    /\ UNCHANGED << cfg, outside, packsExists, packs, requests, poolVars >>

\* Lines 87-89: shutil.copyfileobj(r.raw, f).
download_mod_copy(i) ==
    /\ pc = "pool"
    /\ tasks[i].pc = "copy"
    /\ \/ \* the stream breaks: urllib3's error is no RequestException
          /\ tasks' = [tasks EXCEPT ![i].pc = "raised"]
          /\ UNCHANGED mods
       \/ /\ tasks' = [tasks EXCEPT ![i].pc = "done", ![i].wrote = TRUE]
          /\ mods' = WriteFile(mods,
                ModFile(FileName(tasks[i].release[1].mainfile), tasks[i].modid,
                        tasks[i].release[1].releaseid, TRUE))
    /\ UNCHANGED << cfg, outside, packsExists, packs, requests, poolVars >>

\* The mutant: the results of executor.map are read, so what a task raised
\* is raised again in the main thread.
pool_join_reraise ==
    /\ pc = "pool"
    /\ \A i \in DOMAIN tasks : TaskEnded(tasks[i])
    /\ pc' = IF \E i \in DOMAIN tasks : tasks[i].pc = "raised" THEN "crashed"
             ELSE IF flow = "install" THEN "configs" ELSE "returned"
    /\ UNCHANGED << fsVars, tasks, requests, flow, modpack, overwrite_mods,
                    apply_configs, ci, runVars, logVars >>

\* The mutant: the pool is left without waiting for its tasks.
pool_join_nowait ==
    /\ pc = "pool"
    /\ pc' = IF flow = "install" THEN "configs" ELSE "returned"
    /\ UNCHANGED << fsVars, tasks, requests, flow, modpack, overwrite_mods,
                    apply_configs, ci, runVars, logVars >>

\* Leaving `with ThreadPoolExecutor() as executor` (lines 143-144, 313-316):
\* shutdown waits for every task; executor.map's results are never read, so
\* what a task raised is dropped.
pool_join ==
    /\ pc = "pool"
    /\ \A i \in DOMAIN tasks : TaskEnded(tasks[i])
    /\ pc' = IF flow = "install" THEN "configs" ELSE "returned"
    /\ UNCHANGED << fsVars, tasks, requests, flow, modpack, overwrite_mods,
                    apply_configs, ci, runVars, logVars >>

(***************************************************************************)
(* install_mod_pack (lines 96-164)                                         *)
(***************************************************************************)

\* ensure_modpacks_folder (lines 18-23): TRUE when the folder was there.
ensure_modpacks_folder == packsExists

\* Lines 97-116: the packs folder, the list of packs, the selection.
install_mod_pack_select ==
    /\ flow = "menu"
    /\ flow' = "install"
    /\ packsExists' = TRUE
    /\ IF ~ensure_modpacks_folder \/ packs = {}
       THEN pc' = "returned" /\ UNCHANGED modpack
       ELSE \/ \* ValueError / IndexError: "Invalid selection"
               pc' = "returned" /\ UNCHANGED modpack
            \/ \E a \in packs : modpack' = << a >> /\ pc' = "open"
    /\ UNCHANGED << mods, cfg, outside, packs, overwrite_mods, apply_configs, ci,
                    tasks, requests, runVars, logVars >>

\* The mutant: the KeyError of a missing pack.json is not looked for.
install_mod_pack_open_unchecked ==
    /\ flow = "install"
    /\ pc = "open"
    /\ pc' = "ask"
    /\ UNCHANGED << fsVars, flow, modpack, overwrite_mods, apply_configs, ci,
                    tasks, requests, runVars, logVars >>

\* Lines 119-125: zipf.open("pack.json") raises KeyError when there is none.
install_mod_pack_open ==
    /\ flow = "install"
    /\ pc = "open"
    /\ pc' = IF modpack[1].hasPackJson THEN "ask" ELSE "returned"
    /\ UNCHANGED << fsVars, flow, modpack, overwrite_mods, apply_configs, ci,
                    tasks, requests, runVars, logVars >>

\* Lines 127-134: the Overwrite/Merge answer; Overwrite clears MODS_DIR.
install_mod_pack_overwrite(inputs) ==
    /\ flow = "install"
    /\ pc = "ask"
    /\ \E ans \in inputs :
          /\ overwrite_mods' = StripLower(ans)
          /\ mods' = IF StripLower(ans) = "overwrite" THEN ClearDir(mods) ELSE mods
    /\ pc' = "build"
    /\ UNCHANGED << cfg, outside, packsExists, packs, flow, modpack, apply_configs,
                    ci, tasks, requests, runVars, logVars >>

\* mod["name"], mod["version"] and modpack_data["mods"] raise KeyError on a
\* missing key (line 137).
ModsReadable(data) ==
    /\ data.hasMods
    /\ \A k \in DOMAIN data.mods :
          data.mods[k].name # NoKey /\ data.mods[k].version # NoKey

\* Lines 137-144: mods_to_download, and one task per element handed to the pool.
install_mod_pack_submit ==
    /\ flow = "install"
    /\ pc = "build"
    /\ IF ModsReadable(modpack[1].data)
       THEN /\ tasks' = [k \in DOMAIN modpack[1].data.mods |->
                           Task(modpack[1].data.mods[k].name,
                                modpack[1].data.mods[k].version)]
            /\ pc' = "pool"
       ELSE /\ pc' = "crashed"
            /\ UNCHANGED tasks
    /\ UNCHANGED << fsVars, flow, modpack, overwrite_mods, apply_configs, ci,
                    requests, runVars, logVars >>

\* The mutant: CONFIG_DIR is cleared before the answer is looked at.
install_mod_pack_configs_clear_first ==
    /\ flow = "install"
    /\ pc = "configs"
    /\ IF ~modpack[1].data.hasConfigs
       THEN pc' = "crashed" /\ UNCHANGED << apply_configs, cfg, ci >>
       ELSE IF modpack[1].data.configs = << >>
       THEN pc' = "complete" /\ UNCHANGED << apply_configs, cfg, ci >>
       ELSE \E ans \in ConfigInputs :
               /\ apply_configs' = StripLower(ans)
               /\ cfg' = ClearDir(cfg)
               /\ IF StripLower(ans) = "overwrite"
                  THEN ci' = 1 /\ pc' = "extract"
                  ELSE pc' = "complete" /\ UNCHANGED ci
    /\ UNCHANGED << mods, outside, packsExists, packs, flow, modpack, overwrite_mods,
                    tasks, requests, runVars, logVars >>

\* Lines 147-154: the configs of the manifest, the Overwrite/Ignore answer;
\* Overwrite clears CONFIG_DIR.
install_mod_pack_configs ==
    /\ flow = "install"
    /\ pc = "configs"
    /\ IF ~modpack[1].data.hasConfigs
       THEN pc' = "crashed" /\ UNCHANGED << apply_configs, cfg, ci >>
       ELSE IF modpack[1].data.configs = << >>
       THEN pc' = "complete" /\ UNCHANGED << apply_configs, cfg, ci >>
       ELSE \E ans \in ConfigInputs :
               /\ apply_configs' = StripLower(ans)
               /\ IF StripLower(ans) = "overwrite"
                  THEN cfg' = ClearDir(cfg) /\ ci' = 1 /\ pc' = "extract"
                  ELSE pc' = "complete" /\ UNCHANGED << cfg, ci >>
    /\ UNCHANGED << mods, outside, packsExists, packs, flow, modpack, overwrite_mods,
                    tasks, requests, runVars, logVars >>

\* target_path = CONFIG_DIR / Path(config), as the file system resolves it.
TargetPath(config) == NormPath(<< >>, JoinPath(CONFIG_DIR, config))

InConfigDir(target) == IsPrefix(CONFIG_DIR, target) /\ Len(target) > Len(CONFIG_DIR)

\* The target is a file of MODS_DIR itself.
InModsDir(target) == IsPrefix(MODS_DIR, target) /\ Len(target) = Len(MODS_DIR) + 1

\* Lines 157-162, one config of the manifest: mkdir of the parent, then
\* zipf.open(config) (KeyError when the archive has no such entry), then the copy.
install_mod_pack_extract ==
    /\ flow = "install"
    /\ pc = "extract"
    /\ LET config == modpack[1].data.configs[ci]
           target == TargetPath(config)
       IN  /\ IF config \in modpack[1].entries
              THEN /\ pc' = IF ci = Len(modpack[1].data.configs)
                            THEN "complete" ELSE "extract"
                   /\ ci' = ci + 1
                   /\ IF InConfigDir(target)
                      THEN /\ cfg' = WriteCfg(cfg,
                                 CfgFile(SubSeq(target, Len(CONFIG_DIR) + 1, Len(target)),
                                         modpack[1].name))
                           /\ outside' = outside \cup MadeOutside(target)
                      ELSE /\ outside' = outside \cup MadeOutside(target) \cup {target}
                           /\ UNCHANGED cfg
                   /\ mods' = IF InModsDir(target)
                              THEN WriteFile(mods, ModFile(target[Len(target)], "config",
                                                           0, TRUE))
                              ELSE mods
              ELSE /\ pc' = "crashed"
                   /\ outside' = outside \cup MadeOutside(target)
                   /\ UNCHANGED << mods, cfg, ci >>
    /\ UNCHANGED << packsExists, packs, flow, modpack, overwrite_mods,
                    apply_configs, tasks, requests, runVars, logVars >>

\* Line 164: "Mod pack installation complete."
install_mod_pack_complete ==
    /\ flow = "install"
    /\ pc = "complete"
    /\ pc' = "returned"
    /\ UNCHANGED << fsVars, flow, modpack, overwrite_mods, apply_configs, ci,
                    tasks, requests, runVars, logVars >>


(***************************************************************************)
(* extract_mod_info and _create_mod_pack_internal, as backup_installed_mods *)
(* uses them (lines 26-38, 190-230, 233-248)                               *)
(***************************************************************************)

\* The order in which glob lists the mods directory.
GlobOrder ==
    << "abc_1.0.0.zip", "abc_2.0.0.zip", "badjson.zip", "foo_0.3.zip", "listjson.zip",
       "nomodinfo.zip", "old.zip" >>

\* What zipfile and json.load find in a mod binary (lines 29-31): a file cut
\* short or a config file is no zip; of the local files, one has no modinfo.json entry, one a
\* modinfo.json that is not JSON, one a modinfo.json that is a JSON list.
ModInfoKind(f) ==
    IF ~f.full \/ f.src = "config" THEN "BadZipFile"
    ELSE CASE f.name = "nomodinfo.zip" -> "KeyError"
           [] f.name = "badjson.zip"   -> "JSONDecodeError"
           [] f.name = "listjson.zip"  -> "list"
           [] OTHER                    -> "object"

\* Line 37: the exceptions extract_mod_info catches.
Caught == { "KeyError", "BadZipFile", "JSONDecodeError" }

\* Line 32: modinfo.items() of a value that is no object raises
\* AttributeError, which line 37 does not name.
ModInfoRaises(f) == ModInfoKind(f) \notin Caught \cup { "object" }

\* The version a complete mod binary states in its modinfo.json.
ModInfoVersion(f) ==
    IF f.rid = 0 THEN "0.1"
    ELSE LET rs == MOD_DATA(f.src).releases
         IN  rs[CHOOSE k \in DOMAIN rs : rs[k].releaseid = f.rid].modversion

\* extract_mod_info, for a file on which it does not raise: the id and the
\* version of modinfo.json, the placeholder pair after a caught exception.
extract_mod_info(f) ==
    IF ModInfoKind(f) = "object" THEN Entry(f.src, ModInfoVersion(f))
    ELSE Entry("unknown_modid", "unknown_version")

\* Lines 199-202: one {"name", "version"} per *.zip of MODS_DIR.
RECURSIVE ListMods(_, _)
ListMods(dir, names) ==
    IF names = << >> THEN << >>
    ELSE (IF FileExists(dir, Head(names))
          THEN << extract_mod_info(CHOOSE f \in dir : f.name = Head(names)) >>
          ELSE << >>) \o ListMods(dir, Tail(names))

\* Lines 200-201 raise when extract_mod_info does for one of the files.
ListModsRaises(dir) == \E f \in dir : ModInfoRaises(f)

\* datetime.datetime.now().strftime("%Y%m%d_%H%M%S")
Timestamp == "20261103_101500"

\* The pack that _create_mod_pack_internal(backup_zip_path, backup_name,
\* ask_for_configs=False) writes: include_configs stays 'n'.
BackupPack(dir) ==
    Archive("backup", Timestamp, TRUE,
            Manifest(TRUE, ListMods(dir, GlobOrder), TRUE, << >>), {})

\* zipfile.ZipFile(modpack_zip_path, 'w'): the archive of that name is replaced.
WritePack(dir, a) ==
    { b \in dir : ~(b.name = a.name /\ b.ts = a.ts) } \cup { a }

(***************************************************************************)
(* create_mod_pack (lines 167-188) and _create_mod_pack_internal           *)
(***************************************************************************)

\* modpack_zip_path.exists()
PackExists(dir, name) == \E a \in dir : a.name = name /\ a.ts = ""

\* f"{modpack_name}_{count}"
Suffixed(name, count) ==
    CASE name = "good" /\ count = 1 -> "good_1"
      [] name = "good" /\ count = 2 -> "good_2"
      [] OTHER -> "<name>_<count>"

MaxCount == 2

\* Lines 180-183: the first name with a counter that is not taken.
RECURSIVE FreeName(_, _, _)
FreeName(dir, name, count) ==
    IF ~PackExists(dir, Suffixed(name, count)) \/ count >= MaxCount
    THEN Suffixed(name, count)
    ELSE FreeName(dir, name, count + 1)

\* Names typed at line 171.
CreateNames == { "good", "fresh" }

\* CONFIG_DIR.glob("**/*"), files only, as relative paths (lines 209-212).
CfgGlobOrder == << A_JSON, << "keep.json" >>, B_JSON >>

RECURSIVE ListConfigs(_, _)
ListConfigs(dir, paths) ==
    IF paths = << >> THEN << >>
    ELSE (IF \E f \in dir : f.path = Head(paths) THEN << Head(paths) >> ELSE << >>)
         \o ListConfigs(dir, Tail(paths))

Build(path, name) ==
    [path |-> path, name |-> name, mods |-> << >>, include_configs |-> "n",
     configs |-> << >>, written |-> 0]

\* Lines 168-184: the folder, the name, the question about an existing pack.
create_mod_pack_name ==
    /\ flow = "menu"
    /\ flow' = "create"
    /\ packsExists' = TRUE
    /\ IF ~ensure_modpacks_folder
       THEN pc' = "returned" /\ UNCHANGED build
       ELSE \E modpack_name \in CreateNames, ans \in ConfirmInputs :
               /\ build' = << Build(IF PackExists(packs, modpack_name)
                                         /\ StripLower(ans) # "y"
                                     THEN FreeName(packs, modpack_name, 1)
                                     ELSE modpack_name,
                                     modpack_name) >>
               /\ pc' = "collect"
    /\ UNCHANGED << mods, cfg, outside, packs, installVars, logVars, tasks, requests,
                    histVars >>

\* Lines 199-202: the manifest entries of the installed mods.
create_mod_pack_collect ==
    /\ flow = "create"
    /\ pc = "collect"
    /\ IF ListModsRaises(mods)
       THEN pc' = "crashed" /\ UNCHANGED build
       ELSE /\ build' = << [build[1] EXCEPT !.mods = ListMods(mods, GlobOrder)] >>
            /\ pc' = "include"
    /\ UNCHANGED << fsVars, flow, installVars, logVars, tasks, requests, histVars >>

\* Lines 204-212: the question about the config files, and their list.
create_mod_pack_include ==
    /\ flow = "create"
    /\ pc = "include"
    /\ \E ans \in ConfirmInputs :
          build' = << [build[1] EXCEPT
                         !.include_configs = StripLower(ans),
                         !.configs = IF StripLower(ans) = "y"
                                     THEN ListConfigs(cfg, CfgGlobOrder)
                                     ELSE << >>] >>
    /\ pc' = "zip"
    /\ UNCHANGED << fsVars, flow, installVars, logVars, tasks, requests, histVars >>

\* Line 222: zipfile.ZipFile(modpack_zip_path, 'w') opens the destination
\* itself for writing, which empties an archive that is there; or the open
\* fails (OSError).
create_mod_pack_zip ==
    /\ flow = "create"
    /\ pc = "zip"
    /\ \/ /\ packs' = WritePack(packs,
                                 Archive(build[1].path, "", FALSE,
                                         Manifest(FALSE, << >>, FALSE, << >>), {}))
          /\ pc' = "manifest"
       \/ pc' = "crashed" /\ UNCHANGED packs
    /\ UNCHANGED << mods, cfg, outside, packsExists, flow, installVars, logVars, tasks,
                    requests, runVars >>

\* The archive being written.
Written == CHOOSE a \in packs : a.name = build[1].path /\ a.ts = ""

\* Line 224: writestr("pack.json", ...); or the write fails, and leaving the
\* with block closes the archive as it is.
create_mod_pack_manifest ==
    /\ flow = "create"
    /\ pc = "manifest"
    /\ \/ /\ packs' = WritePack(packs,
                                 [Written EXCEPT
                                    !.hasPackJson = TRUE,
                                    !.data = Manifest(TRUE, build[1].mods, TRUE,
                                                      build[1].configs)])
          /\ pc' = "entries"
       \/ pc' = "crashed" /\ UNCHANGED packs
    /\ UNCHANGED << mods, cfg, outside, packsExists, flow, installVars, logVars, tasks,
                    requests, runVars >>

\* Lines 227-230 and 188: one config file is added to the archive, or adding
\* it fails; after the last one the pack is reported as created.
create_mod_pack_entry ==
    /\ flow = "create"
    /\ pc = "entries"
    /\ IF build[1].written = Len(build[1].configs)
       THEN pc' = "returned" /\ UNCHANGED << packs, build >>
       ELSE \/ /\ packs' = WritePack(packs,
                     [Written EXCEPT
                        !.entries = @ \cup { build[1].configs[build[1].written + 1] }])
               /\ build' = << [build[1] EXCEPT !.written = @ + 1] >>
               /\ pc' = "entries"
            \/ pc' = "crashed" /\ UNCHANGED << packs, build >>
    /\ UNCHANGED << mods, cfg, outside, packsExists, flow, installVars, logVars, tasks,
                    requests, histVars >>

(***************************************************************************)
(* install_mods_from_log (lines 250-316)                                   *)
(***************************************************************************)

\* A log line is a sequence of symbols: MARK is the text
\* "Mods, sorted by dependency:", SP is white space, COMMA a comma, and any
\* other symbol a run of characters without comma or white space.
MARK == "Mods, sorted by dependency:"
SP == " "
COMMA == ","

Log(isFile, lines) == [isFile |-> isFile, lines |-> lines]

Logs ==
    { Log(FALSE, << >>),
      Log(TRUE, << << "Loading", SP, "mods" >> >>),
      Log(TRUE, << << "x" >>,
                   << "12:00", SP, MARK, SP, "game", COMMA, SP, "Creative", COMMA,
                      "survival", SP >> >>),
      Log(TRUE, << << MARK, SP >>, << MARK, SP, "foo" >> >>),
      Log(TRUE, << << "12:00", SP, MARK, SP, "game", COMMA, SP, "foo", COMMA, SP,
                      "abc", SP >>,
                   << MARK, SP, "nor" >> >>),
      Log(TRUE, << << MARK, "bar", COMMA, COMMA, SP, "nor", COMMA, "SURVIVAL" >> >>) }

\* str.strip()
RECURSIVE LStrip(_)
LStrip(s) == IF s # << >> /\ Head(s) = SP THEN LStrip(Tail(s)) ELSE s

RECURSIVE RStrip(_)
RStrip(s) ==
    IF s # << >> /\ s[Len(s)] = SP THEN RStrip(SubSeq(s, 1, Len(s) - 1)) ELSE s

Strip(s) == RStrip(LStrip(s))

\* str.split(","): the pieces between the commas (one empty piece for "").
RECURSIVE Split(_, _)
Split(s, piece) ==
    IF s = << >> THEN << piece >>
    ELSE IF Head(s) = COMMA THEN << piece >> \o Split(Tail(s), << >>)
         ELSE Split(Tail(s), Append(piece, Head(s)))

\* The characters of a stripped piece as one string.
TokenString(t) == IF Len(t) = 1 THEN t[1] ELSE "<several words>"

\* str.lower()
Lower(w) ==
    CASE w = "Creative" -> "creative"
      [] w = "SURVIVAL" -> "survival"
      [] OTHER -> w

\* The mutant: the last line with the marker is taken.
LastMarkerLine(lines) ==
    LET hits == { k \in DOMAIN lines : \E j \in DOMAIN lines[k] : lines[k][j] = MARK }
    IN  IF hits = {} THEN 0 ELSE CHOOSE k \in hits : \A j \in hits : k >= j

\* Index of the first line with the marker, 0 when there is none (line 273).
FirstMarkerLine(lines) ==
    LET hits == { k \in DOMAIN lines : \E j \in DOMAIN lines[k] : lines[k][j] = MARK }
    IN  IF hits = {} THEN 0 ELSE CHOOSE k \in hits : \A j \in hits : k <= j

\* Lines 275-280 on the line found.
RECURSIVE Tokens(_)
Tokens(pieces) ==
    IF pieces = << >> THEN << >>
    ELSE (IF Strip(Head(pieces)) # << >>
          THEN << TokenString(Strip(Head(pieces))) >> ELSE << >>)
         \o Tokens(Tail(pieces))

\* The text after the first marker is plain text to split(","): a marker that
\* occurs again in it is the words of the marker, with their comma.
MarkText == << "Mods", COMMA, SP, "sorted", SP, "by", SP, "dependency:" >>

RECURSIVE AsText(_)
AsText(s) ==
    IF s = << >> THEN << >>
    ELSE (IF Head(s) = MARK THEN MarkText ELSE << Head(s) >>) \o AsText(Tail(s))

ParseLine(line) ==
    LET start  == CHOOSE j \in DOMAIN line :
                     line[j] = MARK /\ \A i \in DOMAIN line : line[i] = MARK => j <= i
        mods_part == Strip(AsText(SubSeq(line, start + 1, Len(line))))
    IN  Tokens(Split(mods_part, << >>))

\* Lines 270-281.
ParseLog(lines) ==
    IF FirstMarkerLine(lines) = 0 THEN << >>
    ELSE ParseLine(lines[FirstMarkerLine(lines)])

vanilla_mods == { "game", "creative", "survival" }

\* Line 289.
RECURSIVE FilterVanilla(_)
FilterVanilla(found) ==
    IF found = << >> THEN << >>
    ELSE (IF Lower(Head(found)) \notin vanilla_mods THEN << Head(found) >> ELSE << >>)
         \o FilterVanilla(Tail(found))

\* Line 260 and backup_installed_mods (lines 233-248): when the ModPacks
\* folder is missing, ensure_modpacks_folder creates it and answers False,
\* and backup_installed_mods returns without writing a pack.
install_mods_from_log_backup ==
    /\ flow = "menu"
    /\ flow' = "log"
    /\ packsExists' = TRUE
    /\ IF ensure_modpacks_folder /\ ListModsRaises(mods)
       THEN pc' = "crashed" /\ UNCHANGED packs
       ELSE /\ pc' = "logpath"
            /\ packs' = IF ensure_modpacks_folder
                        THEN WritePack(packs, BackupPack(mods))
                        ELSE packs
    /\ UNCHANGED << mods, cfg, outside, installVars, logVars, tasks, requests, runVars >>

\* Lines 263-285: the log path, the parse, "Could not find any mods".
install_mods_from_log_read_from(logs) ==
    /\ flow = "log"
    /\ pc = "logpath"
    /\ \E l \in logs :
          /\ log_file' = << l >>
          /\ IF ~l.isFile
             THEN pc' = "returned" /\ UNCHANGED found_mods
             ELSE /\ found_mods' = ParseLog(l.lines)
                  /\ pc' = IF ParseLog(l.lines) = << >> THEN "returned" ELSE "filter"
    /\ UNCHANGED << fsVars, flow, installVars, filtered_mods, confirm, tasks,
                    requests, runVars >>

install_mods_from_log_read == install_mods_from_log_read_from(Logs)

\* Lines 287-293: the vanilla mods are dropped, "Nothing to install".
install_mods_from_log_filter ==
    /\ flow = "log"
    /\ pc = "filter"
    /\ filtered_mods' = FilterVanilla(found_mods)
    /\ pc' = IF FilterVanilla(found_mods) = << >> THEN "returned" ELSE "confirm"
    /\ UNCHANGED << fsVars, flow, installVars, log_file, found_mods, confirm, tasks,
                    requests, runVars >>

\* The mutant: the answer is read and not compared with 'y'.
install_mods_from_log_confirm_any ==
    /\ flow = "log"
    /\ pc = "confirm"
    /\ \E ans \in ConfirmInputs : confirm' = StripLower(ans)
    /\ pc' = "clear"
    /\ UNCHANGED << fsVars, flow, installVars, log_file, found_mods, filtered_mods,
                    tasks, requests, runVars >>

\* Lines 298-301: the confirmation.
install_mods_from_log_confirm ==
    /\ flow = "log"
    /\ pc = "confirm"
    /\ \E ans \in ConfirmInputs :
          /\ confirm' = StripLower(ans)
          /\ pc' = IF StripLower(ans) # "y" THEN "returned" ELSE "clear"
    /\ UNCHANGED << fsVars, flow, installVars, log_file, found_mods, filtered_mods,
                    tasks, requests, runVars >>

\* Lines 304-306: the Mods folder is cleared.
install_mods_from_log_clear ==
    /\ flow = "log"
    /\ pc = "clear"
    /\ mods' = ClearDir(mods)
    /\ pc' = "submit"
    /\ UNCHANGED << cfg, outside, packsExists, packs, flow, installVars, logVars,
                    tasks, requests, runVars >>

\* Lines 310-314: one task per mod, each for the latest release.
install_mods_from_log_submit ==
    /\ flow = "log"
    /\ pc = "submit"
    /\ tasks' = [k \in DOMAIN filtered_mods |-> Task(filtered_mods[k], None)]
    /\ pc' = "pool"
    /\ UNCHANGED << fsVars, flow, installVars, logVars, requests, runVars >>

(***************************************************************************)
(* The program: one menu entry run from a state of the local store         *)
(***************************************************************************)

OLD_ZIP == ModFile("old.zip", "old", 0, TRUE)

InitMods ==
    { {},
      { OLD_ZIP },
      { OLD_ZIP, ModFile("abc_1.0.0.zip", "abc", 5, TRUE) },
      { ModFile("foo_0.3.zip", "foo", 9, FALSE) },
      { OLD_ZIP, ModFile("nomodinfo.zip", "local", 0, TRUE),
        ModFile("badjson.zip", "local", 0, TRUE) },
      { OLD_ZIP, ModFile("listjson.zip", "local", 0, TRUE) } }

InitCfg ==
    { {}, { CfgFile(A_JSON, "local"), CfgFile(<< "keep.json" >>, "local") } }

InitStore ==
    /\ mods \in InitMods
    /\ cfg \in InitCfg
    /\ outside = {}
    /\ packsExists \in BOOLEAN
    /\ packs \in (IF packsExists THEN { {}, UserPacks } ELSE { {} })

ModIds == { "abc", "foo", "nor", "bar", "<several words>" }

InitRun ==
    /\ registry = [m \in ModIds |-> StoreAnswer(m)]
    /\ flow = "menu"
    /\ pc = "menu"
    /\ modpack = << >>
    /\ overwrite_mods = ""
    /\ apply_configs = ""
    /\ ci = 0
    /\ log_file = << >>
    /\ found_mods = << >>
    /\ filtered_mods = << >>
    /\ confirm = ""
    /\ tasks = << >>
    /\ requests = 0
    /\ pass = 1
    /\ mods0 = mods
    /\ cfg0 = cfg
    /\ mods1 = {}
    /\ tasks1 = << >>
    /\ packs0 = packs
    /\ build = << >>

Init == InitStore /\ InitRun

PoolStep ==
    \E i \in DOMAIN tasks :
        \/ download_mod_resolve(i)
        \/ download_mod_check(i)
        \/ download_mod_open(i)
        \/ download_mod_copy(i)

Next ==
    \/ install_mod_pack_select
    \/ install_mod_pack_open
    \/ install_mod_pack_overwrite(OverwriteInputs)
    \/ install_mod_pack_submit
    \/ PoolStep
    \/ pool_join
    \/ install_mod_pack_configs
    \/ install_mod_pack_extract
    \/ install_mod_pack_complete
    \/ install_mods_from_log_backup
    \/ install_mods_from_log_read
    \/ install_mods_from_log_filter
    \/ install_mods_from_log_confirm
    \/ install_mods_from_log_clear
    \/ install_mods_from_log_submit
    \/ create_mod_pack_name
    \/ create_mod_pack_collect
    \/ create_mod_pack_include
    \/ create_mod_pack_zip
    \/ create_mod_pack_manifest
    \/ create_mod_pack_entry

Spec == Init /\ [][Next]_vars


(***************************************************************************)
(* install_mod_pack run twice on the same pack, merging both times         *)
(***************************************************************************)

\* main_menu (lines 319-338): choice '2' again after a run that got through,
\* with the same selection.
install_again ==
    /\ flow = "install"
    /\ pc = "returned"
    /\ pass = 1
    /\ modpack # << >>
    /\ modpack[1].hasPackJson
    /\ pass' = 2
    /\ mods1' = mods
    /\ tasks1' = tasks
    /\ tasks' = << >>
    /\ pc' = "open"
    /\ UNCHANGED << fsVars, flow, installVars, logVars, requests, registry, mods0, cfg0,
                    packs0, build >>

NextTwice ==
    \/ install_mod_pack_select
    \/ install_mod_pack_open
    \/ install_mod_pack_overwrite(MergeInputs)
    \/ install_mod_pack_submit
    \/ PoolStep
    \/ pool_join
    \/ install_mod_pack_configs
    \/ install_mod_pack_extract
    \/ install_mod_pack_complete
    \/ install_again

SpecTwice == Init /\ [][NextTwice]_vars

(***************************************************************************)
(* download_mod on one mod, over every release list within the bounds      *)
(***************************************************************************)

ReleaseVersions == { "1.0.0", "2.0.0" }

WantedVersions == { None, "", "1.0.0", "2.0.0", "9.9" }

MainFileOf(ver) ==
    IF ver = "1.0.0" THEN << "files", "abc_1.0.0.zip" >> ELSE << "files", "abc_2.0.0.zip" >>

ReleaseChoices ==
    { Release(id, ver, MainFileOf(ver)) : id \in 1..MaxReleaseId, ver \in ReleaseVersions }

ReleaseLists == UNION { [1..n -> ReleaseChoices] : n \in 0..MaxReleases }

InitResolve ==
    /\ \E rs \in ReleaseLists, hasMod \in BOOLEAN :
          /\ hasMod \/ rs = << >>
          /\ registry = [m \in ModIds |->
                           IF m = "abc" THEN Answer(hasMod, rs) ELSE StoreAnswer(m)]
    /\ \E v \in WantedVersions : tasks = << Task("abc", v) >>
    /\ mods \in { {}, { ModFile("abc_1.0.0.zip", "abc", 0, TRUE) } }
    /\ cfg = {}
    /\ outside = {}
    /\ packsExists = TRUE
    /\ packs = {}
    /\ flow = "log"
    /\ pc = "pool"
    /\ modpack = << >>
    /\ overwrite_mods = ""
    /\ apply_configs = ""
    /\ ci = 0
    /\ log_file = << >>
    /\ found_mods = << >>
    /\ filtered_mods = << >>
    /\ confirm = ""
    /\ requests = 0
    /\ pass = 1
    /\ mods0 = mods
    /\ cfg0 = cfg
    /\ mods1 = {}
    /\ tasks1 = << >>
    /\ packs0 = packs
    /\ build = << >>

NextResolve == PoolStep \/ pool_join

SpecResolve == InitResolve /\ [][NextResolve]_vars

(***************************************************************************)
(* Two download tasks of one pool, over the file names the registry may    *)
(* give to the releases                                                    *)
(***************************************************************************)

\* Values of 'mainfile': the last segment is what line 75 keeps.
MainFiles ==
    { << "files", "1", "mod.zip" >>, << "files", "2", "mod.zip" >>,
      << "files", "abc_1.0.0.zip" >> }

\* (mod id, version) pairs of a manifest or a log.
Wanted == { << "abc", "1.0.0" >>, << "abc", "2.0.0" >>, << "foo", None >> }

InitNames ==
    /\ \E m1, m2, m3 \in MainFiles :
          registry = [m \in ModIds |->
              CASE m = "abc" -> Answer(TRUE, << Release(5, "1.0.0", m1),
                                                Release(6, "2.0.0", m2) >>)
                [] m = "foo" -> Answer(TRUE, << Release(9, "0.3", m3) >>)
                [] OTHER -> StoreAnswer(m)]
    /\ \E a, b \in Wanted : tasks = << Task(a[1], a[2]), Task(b[1], b[2]) >>
    /\ mods = {}
    /\ cfg = {}
    /\ outside = {}
    /\ packsExists = TRUE
    /\ packs = {}
    /\ flow = "log"
    /\ pc = "pool"
    /\ modpack = << >>
    /\ overwrite_mods = ""
    /\ apply_configs = ""
    /\ ci = 0
    /\ log_file = << >>
    /\ found_mods = << >>
    /\ filtered_mods = << >>
    /\ confirm = ""
    /\ requests = 0
    /\ pass = 1
    /\ mods0 = mods
    /\ cfg0 = cfg
    /\ mods1 = {}
    /\ tasks1 = << >>
    /\ packs0 = packs
    /\ build = << >>

NextNames == PoolStep \/ pool_join

SpecNames == InitNames /\ [][NextNames]_vars

(***************************************************************************)
(* The program with a remote side that may stay silent                     *)
(***************************************************************************)

\* Whether the request a task is making or reading from carries a timeout:
\* line 48 passes timeout=10, line 84 passes none, and the read of r.raw at
\* line 87 is on the connection of line 84.
HasTimeout(at) == at = "start"

\* The remote side never answers, or stops sending: with a timeout the
\* request raises requests.Timeout, a RequestException (line 91); without
\* one the task stays blocked in the call.
download_mod_silent(i) ==
    /\ pc = "pool"
    /\ tasks[i].pc \in { "start", "request", "copy" }
    /\ requests' = IF tasks[i].pc = "start" THEN requests + 1 ELSE requests
    /\ tasks' = [tasks EXCEPT ![i].pc =
                    IF HasTimeout(tasks[i].pc) THEN "failed" ELSE "blocked"]
    /\ UNCHANGED << fsVars, poolVars >>

PoolStepWait ==
    \/ PoolStep
    \/ \E i \in DOMAIN tasks : download_mod_silent(i)

NextWait ==
    \/ install_mod_pack_select
    \/ install_mod_pack_open
    \/ install_mod_pack_overwrite(OverwriteInputs)
    \/ install_mod_pack_submit
    \/ PoolStepWait
    \/ pool_join
    \/ install_mod_pack_configs
    \/ install_mod_pack_extract
    \/ install_mod_pack_complete
    \/ install_mods_from_log_backup
    \/ install_mods_from_log_read
    \/ install_mods_from_log_filter
    \/ install_mods_from_log_confirm
    \/ install_mods_from_log_clear
    \/ install_mods_from_log_submit

\* Every thread that can take a step does so in the end.
SpecWait == Init /\ [][NextWait]_vars /\ WF_vars(NextWait)

(***************************************************************************)
(* The log import over every short log: a first line of up to MaxLineLen   *)
(* symbols followed by a second line with or without the marker            *)
(***************************************************************************)

MaxLineLen == 4

LineAlphabet == { MARK, SP, COMMA, "game", "Creative", "foo" }

LogLines == UNION { [1..n -> LineAlphabet] : n \in 0..MaxLineLen }

SecondLines == { << "x" >>, << MARK, SP, "abc", COMMA, "game" >> }

ShortLogs == { Log(TRUE, << l1, l2 >>) : l1 \in LogLines, l2 \in SecondLines }

InitLog ==
    /\ mods = { OLD_ZIP }
    /\ cfg = {}
    /\ outside = {}
    /\ packsExists \in BOOLEAN
    /\ packs = {}
    /\ InitRun

NextLog ==
    \/ install_mods_from_log_backup
    \/ install_mods_from_log_read_from(ShortLogs)
    \/ install_mods_from_log_filter
    \/ install_mods_from_log_confirm

SpecLog == InitLog /\ [][NextLog]_vars

(***************************************************************************)
(* Properties                                                              *)
(***************************************************************************)

\* The pack chosen by install_mod_pack, once chosen.
Chosen == flow = "install" /\ modpack # << >>

\* C1: in install_mods_from_log, whenever the confirmation has been given
\* (the Mods folder is about to be cleared, or has been), the packs
\* directory holds a pack backup_<timestamp> whose manifest lists the mods
\* as they were at the start of the flow.
C1_BackupBeforeClear ==
    (flow = "log" /\ confirm = "y") =>
        \E a \in packs :
            /\ a.name = "backup"
            /\ a.ts = Timestamp
            /\ a.hasPackJson
            /\ a.data.mods = ListMods(mods0, GlobOrder)

\* A pack.json that is there and misses "mods", "configs", the "name" of a
\* mod, or lists a config the archive has no entry for.
StructurallyInvalid(a) ==
    /\ a.hasPackJson
    /\ \/ ~a.data.hasMods
       \/ ~a.data.hasConfigs
       \/ \E k \in DOMAIN a.data.mods : a.data.mods[k].name = NoKey
       \/ \E k \in DOMAIN a.data.configs : a.data.configs[k] \notin a.entries

\* C2: install_mod_pack on a pack whose pack.json is structurally invalid
\* leaves the mods directory and the config directory as they were, whatever
\* the answers are.
C2_InvalidPackNoMutation ==
    (Chosen /\ StructurallyInvalid(modpack[1])) => (mods = mods0 /\ cfg = cfg0)

\* C3: install_mod_pack on an archive without a pack.json entry stops before
\* the overwrite/merge question: it is never past the opening of the archive,
\* both directories are as they were, no registry request is made and no
\* download task exists.
C3_NoManifestRejected ==
    (Chosen /\ ~modpack[1].hasPackJson) =>
        /\ pc \in {"open", "returned"}
        /\ mods = mods0
        /\ cfg = cfg0
        /\ outside = {}
        /\ requests = 0
        /\ tasks = << >>

C3_Witness ==
    /\ Chosen
    /\ ~modpack[1].hasPackJson
    /\ pc = "returned"
    /\ mods0 # {}
    /\ cfg0 # {}

\* C4: config extraction never creates a file or a directory outside the
\* config root.
C4_NothingOutsideConfigRoot == outside = {}

\* C8: install_mod_pack on a manifest with a mod entry that has no version
\* field (and is otherwise well formed) runs one download task per entry
\* and never ends in an error; the entry's task resolves to the newest release.
HasVersionlessEntry(a) ==
    /\ a.hasPackJson
    /\ a.data.hasMods
    /\ a.data.hasConfigs
    /\ \A k \in DOMAIN a.data.mods : a.data.mods[k].name # NoKey
    /\ \E k \in DOMAIN a.data.mods : a.data.mods[k].version = NoKey

C8_NoVersionMeansLatest ==
    (Chosen /\ HasVersionlessEntry(modpack[1]) /\ pc \notin {"open", "ask", "build"}) =>
        /\ pc # "crashed"
        /\ DOMAIN tasks = DOMAIN modpack[1].data.mods

\* C9: the config directory differs from what it was at the start only in
\* install_mod_pack, with a manifest whose configs list is non-empty and
\* the answer Overwrite; in every other case it is unchanged, whatever
\* the downloads did.
C9_ConfigFrame ==
    (cfg # cfg0 \/ pc = "extract") =>
        /\ Chosen
        /\ modpack[1].data.hasConfigs
        /\ modpack[1].data.configs # << >>
        /\ apply_configs = "overwrite"

C9_Witness ==
    /\ Chosen
    /\ pc = "returned"
    /\ modpack[1].data.configs # << >>
    /\ apply_configs = "ignore"
    /\ cfg0 # {}
    /\ cfg = cfg0
    /\ \E i \in DOMAIN tasks : tasks[i].pc = "done"
    /\ \E i \in DOMAIN tasks : tasks[i].pc = "failed"

\* C10: in install_mods_from_log the mods directory is changed, the pool is
\* started or a registry request is made only if the log has a marker line,
\* the list without the vanilla mods is non-empty and the answer was yes.
C10_LogGuards ==
    (flow = "log" /\ (mods # mods0 \/ requests > 0 \/ tasks # << >>
                      \/ pc \in {"clear", "submit", "pool"})) =>
        /\ log_file # << >>
        /\ log_file[1].isFile
        /\ FirstMarkerLine(log_file[1].lines) # 0
        /\ FilterVanilla(ParseLog(log_file[1].lines)) # << >>
        /\ confirm = "y"

C10_Witness ==
    /\ flow = "log"
    /\ pc = "returned"
    /\ filtered_mods # << >>
    /\ confirm = "n"
    /\ mods0 # {}
    /\ mods = mods0
    /\ requests = 0


\* C5: in the second of two merge installs of the same manifest, a task
\* whose counterpart of the first install succeeded finds its target there:
\* it never gets to the download request and writes nothing; and the mods
\* directory differs from what the first install left only where a task is
\* retried whose counterpart had failed, or where the config step of the
\* second install has extracted an entry whose path leads into MODS_DIR.
ConfigIntoMods ==
    /\ pc \in { "extract", "complete", "returned", "crashed" }
    /\ apply_configs = "overwrite"
    /\ \E k \in 1..(ci - 1) : InModsDir(TargetPath(modpack[1].data.configs[k]))

SharesTarget(i) ==
    \E j \in DOMAIN tasks :
        /\ j # i
        /\ tasks[j].release # << >>
        /\ FileName(tasks[j].release[1].mainfile) = FileName(tasks[i].release[1].mainfile)

\* C6: the operation is past the pool only when every task has ended; the
\* file of a task that downloaded is there (complete and of its release,
\* when no other task has the same target); and an operation that ran
\* tasks ends in an error only for a reason of the config step, never
\* because tasks failed.
C6_TaskIsolation ==
    /\ pc # "pool" => \A i \in DOMAIN tasks : TaskEnded(tasks[i])
    /\ \A i \in DOMAIN tasks :
          tasks[i].pc = "done" =>
              /\ FileExists(mods, FileName(tasks[i].release[1].mainfile))
              /\ ~SharesTarget(i) =>
                    ModFile(FileName(tasks[i].release[1].mainfile), tasks[i].modid,
                            tasks[i].release[1].releaseid, TRUE) \in mods
    /\ (pc = "crashed" /\ tasks # << >>) =>
          /\ flow = "install"
          /\ \/ ~modpack[1].data.hasConfigs
             \/ /\ apply_configs = "overwrite"
                /\ ci \in DOMAIN modpack[1].data.configs
                /\ modpack[1].data.configs[ci] \notin modpack[1].entries

C6_Witness ==
    /\ flow = "install"
    /\ pc = "returned"
    /\ \E i, j \in DOMAIN tasks :
          /\ tasks[i].pc = "raised"
          /\ tasks[i].release = << >>
          /\ tasks[j].pc = "done"
          /\ ModFile(FileName(tasks[j].release[1].mainfile), tasks[j].modid,
                     tasks[j].release[1].releaseid, TRUE) \in mods

\* C7: a task that has chosen its release chose one of the registry's list;
\* when the wanted version is absent or is the modversion of no release it
\* is a release of maximum releaseid, otherwise it has the wanted
\* modversion; and no task raises before choosing unless the answer has no
\* 'mod' entry.
C7_Resolution ==
    \A i \in DOMAIN tasks :
        LET rs == registry[tasks[i].modid].releases
            v  == tasks[i].mod_version
            matched == \E k \in DOMAIN rs : rs[k].modversion = v
        IN  /\ tasks[i].release # << >> =>
                  /\ \E k \in DOMAIN rs : rs[k] = tasks[i].release[1]
                  /\ (~Truthy(v) \/ ~matched) =>
                        \A k \in DOMAIN rs :
                            rs[k].releaseid <= tasks[i].release[1].releaseid
                  /\ (Truthy(v) /\ matched) => tasks[i].release[1].modversion = v
            /\ (tasks[i].pc = "raised" /\ tasks[i].release = << >>) =>
                  ~registry[tasks[i].modid].hasMod
            /\ (tasks[i].pc \notin {"start", "failed", "raised"} /\ rs # << >>) =>
                  tasks[i].release # << >>

C7_Witness ==
    \E i \in DOMAIN tasks :
        LET rs == registry[tasks[i].modid].releases
        IN  /\ tasks[i].release # << >>
            /\ tasks[i].mod_version = "9.9"
            /\ Len(rs) = 3
            /\ rs[1].releaseid < rs[2].releaseid
            /\ rs[3].releaseid < rs[2].releaseid
            /\ tasks[i].release[1] = rs[2]


\* The tokens the text of a marker line names, stated by positions: a token is
\* a stretch of the text after the first marker that lies between two commas
\* (or an end of the text), cut down to its first and last symbol that is not
\* white space; stretches of white space alone name nothing.
AfterMarker(line) ==
    LET m == CHOOSE j \in DOMAIN line :
                 line[j] = MARK /\ \A i \in 1..(j - 1) : line[i] # MARK
    IN  AsText([k \in 1..(Len(line) - m) |-> line[m + k]])

TokenStarts(r) ==
    { a \in DOMAIN r :
        /\ r[a] \notin { SP, COMMA }
        /\ \A i \in 1..(a - 1) : (\A k \in i..(a - 1) : r[k] # COMMA) => r[i] = SP }

TokenEnd(r, a) ==
    CHOOSE b \in a..Len(r) :
        /\ r[b] \notin { SP, COMMA }
        /\ \A k \in a..b : r[k] # COMMA
        /\ \A i \in (b + 1)..Len(r) :
              (\A k \in (b + 1)..i : r[k] # COMMA) => r[i] = SP

Ordered(S) ==
    [k \in 1..Cardinality(S) |->
        CHOOSE a \in S : Cardinality({ b \in S : b < a }) = k - 1]

ExpectedFound(lines) ==
    IF \A k \in DOMAIN lines : \A j \in DOMAIN lines[k] : lines[k][j] # MARK
    THEN << >>
    ELSE LET first == CHOOSE k \in DOMAIN lines :
                          /\ \E j \in DOMAIN lines[k] : lines[k][j] = MARK
                          /\ \A h \in 1..(k - 1) :
                                \A j \in DOMAIN lines[h] : lines[h][j] # MARK
             r == AfterMarker(lines[first])
             starts == Ordered(TokenStarts(r))
         IN  [k \in DOMAIN starts |->
                 IF TokenEnd(r, starts[k]) = starts[k] THEN r[starts[k]]
                 ELSE "<several words>"]

ExpectedFiltered(lines) ==
    LET found == ExpectedFound(lines)
        kept == Ordered({ k \in DOMAIN found :
                            found[k] \notin { "game", "creative", "survival", "Creative",
                                              "SURVIVAL" } })
    IN  [k \in DOMAIN kept |-> found[kept[k]]]

\* C11: the identifiers install_mods_from_log goes on with are exactly the
\* comma-separated tokens after the marker on the first line that holds the
\* marker, trimmed, in their order, without those that are game, creative or
\* survival in any letter case; a later marker line contributes nothing, also
\* when the first one names no token.
C11_LogParsing ==
    (flow = "log" /\ log_file # << >> /\ log_file[1].isFile)
    => /\ found_mods = ExpectedFound(log_file[1].lines)
       /\ pc # "filter" => filtered_mods = ExpectedFiltered(log_file[1].lines)

\* A vanilla token in capitals was dropped from a first marker line that is
\* followed by a second marker line.
C11_Witness ==
    /\ flow = "log" /\ pc = "confirm"
    /\ Len(log_file[1].lines) = 2
    /\ LastMarkerLine(log_file[1].lines) = 2
    /\ FirstMarkerLine(log_file[1].lines) = 1
    /\ "Creative" \in { found_mods[k] : k \in DOMAIN found_mods }
    /\ filtered_mods = << "foo" >>

\* The first marker line names no token and the second one is not read.
C11_WitnessEmptyFirst ==
    /\ flow = "log" /\ pc = "returned"
    /\ log_file # << >> /\ log_file[1].isFile
    /\ FirstMarkerLine(log_file[1].lines) = 1
    /\ LastMarkerLine(log_file[1].lines) = 2
    /\ found_mods = << >>


\* The pack that a create_mod_pack run which meets no failure leaves.
CompletePack(b) ==
    Archive(b.path, "", TRUE, Manifest(TRUE, b.mods, TRUE, b.configs),
            { b.configs[k] : k \in DOMAIN b.configs })

\* C12: when create_mod_pack writes over a pack that exists and a step of the
\* write fails, the destination holds the whole previous archive or the whole
\* new one, never a pack that is cut short.
C12_AtomicPackWrite ==
    (/\ flow = "create" /\ pc = "crashed" /\ build # << >>
     /\ PackExists(packs0, build[1].path))
    => \E a \in packs :
          /\ a.name = build[1].path /\ a.ts = ""
          /\ a \in packs0 \/ a = CompletePack(build[1])


\* The mods directory was cleared by choice: Overwrite at line 127, or the
\* confirmation of a log import.
ClearedByChoice ==
    \/ flow = "install" /\ overwrite_mods = "overwrite"
    \/ flow = "log" /\ confirm = "y"

\* C13: a mod file that is present stays present with the same content
\* through a merge install, a pack creation, a backup and a log import that
\* ends before its confirmation; only clearing the mods directory by choice
\* removes or changes it.
C13_InstalledModsPersist == ClearedByChoice \/ mods0 \subseteq mods


\* C14: a download task never waits without a bound, so while the thread
\* pool is open some task can still take a step or the pool can be left:
\* every task ends and install_mod_pack / install_mods_from_log go on.
C14_BoundedWaiting == pc = "pool" => ENABLED (PoolStepWait \/ pool_join)


\* C15: extract_mod_info answers the placeholder pair for every mod binary
\* that is no zip, has no modinfo.json or has one that is not a JSON object,
\* so the pack build gets past the collection of the mods with one manifest
\* entry per file, in create_mod_pack and in the backup of a log import.
C15_ExtractTotal ==
    /\ (flow = "create" /\ build # << >> /\ pc # "collect")
       => Len(build[1].mods) = Cardinality(mods)
    /\ flow = "log" => pc # "crashed"


\* install_mod_pack got to "Mod pack installation complete." (line 164).
Completed ==
    /\ Chosen /\ modpack[1].hasPackJson
    /\ pc = "returned"

\* C16: in install_mod_pack, (1) with Overwrite the mods directory is empty
\* when the tasks are handed to the pool, so every file in it afterwards was
\* written after the clearing; (2) the config directory is cleared and
\* entries are extracted only when every download task has ended; (3)
\* completion is reported only when every task has ended and the config
\* phase, if there is one, has extracted every entry; (4) the file of a task
\* that succeeded is there at completion, whatever became of the others.
C16_PhaseOrder ==
    Chosen =>
    /\ overwrite_mods = "overwrite" =>
          /\ pc = "build" => mods = {}
          /\ \A f \in mods :
                \/ f.src = "config"
                \/ \E i \in DOMAIN tasks :
                      /\ tasks[i].pc \in { "copy", "done", "raised" }
                      /\ tasks[i].release # << >>
                      /\ f.name = FileName(tasks[i].release[1].mainfile)
                      /\ f.src = tasks[i].modid
    /\ (pc \in { "configs", "extract", "complete" } \/ cfg # cfg0 \/ outside # {})
          => \A i \in DOMAIN tasks : TaskEnded(tasks[i])
    /\ Completed =>
          /\ \A i \in DOMAIN tasks : TaskEnded(tasks[i])
          /\ apply_configs = "overwrite" =>
                \A k \in DOMAIN modpack[1].data.configs :
                    k < ci /\ modpack[1].data.configs[k] \in modpack[1].entries
          /\ \A i \in DOMAIN tasks :
                tasks[i].pc = "done" =>
                    FileExists(mods, FileName(tasks[i].release[1].mainfile))

\* An Overwrite install with configs completed; one task wrote its file and
\* another one failed.
C16_Witness ==
    /\ Completed
    /\ overwrite_mods = "overwrite" /\ apply_configs = "overwrite"
    /\ mods0 # {} /\ cfg # cfg0
    /\ \E i, j \in DOMAIN tasks :
          tasks[i].pc = "done" /\ tasks[j].pc \in { "failed", "raised" }


\* The (mod id, version) a task has resolved to.
Resolved(i) == << tasks[i].modid, tasks[i].release[1].modversion >>

\* C17: two download tasks of one pool that resolved to different (mod id,
\* version) pairs write to different paths of the mods directory, whatever
\* 'mainfile' values the registry gives, so they never have the same file
\* open for writing.
C17_DisjointTargets ==
    \A i, j \in DOMAIN tasks :
        (/\ tasks[i].release # << >> /\ tasks[j].release # << >>
         /\ Resolved(i) # Resolved(j))
        => FileName(tasks[i].release[1].mainfile)
              # FileName(tasks[j].release[1].mainfile)


\* Two tasks of the pool stand for the same manifest entry.
Duplicates(i, j) ==
    /\ i # j
    /\ tasks[i].modid = tasks[j].modid
    /\ tasks[i].mod_version = tasks[j].mod_version

\* The task found no file at its target and went on to the download
\* request: it ended at line 89, or failed at or after line 84.
PassedCheck(t) ==
    /\ t.release # << >>
    /\ t.pc \in { "done", "failed", "raised" }

\* C18: when a manifest lists the same (id, version) twice and both tasks
\* pass the existence check, then once both have ended and one of them has
\* reported success, the file at their target path holds the whole content of
\* the release, in every interleaving of their steps.
C18_DuplicateBenign ==
    \A i, j \in DOMAIN tasks :
        (/\ Duplicates(i, j)
         /\ PassedCheck(tasks[i]) /\ PassedCheck(tasks[j])
         /\ tasks[i].pc = "done")
        => ModFile(FileName(tasks[i].release[1].mainfile), tasks[i].modid,
                   tasks[i].release[1].releaseid, TRUE) \in mods


\* The mods directory when the tasks are handed to the pool.
StartMods == IF ClearedByChoice THEN {} ELSE mods0

\* The files of the tasks that downloaded theirs to the end.
DoneFiles ==
    { ModFile(FileName(tasks[i].release[1].mainfile), tasks[i].modid,
              tasks[i].release[1].releaseid, TRUE) :
        i \in { k \in DOMAIN tasks : tasks[k].pc = "done" } }

\* The pool has just been left.
PoolLeft ==
    /\ tasks # << >>
    /\ \/ flow = "install" /\ pc = "configs"
       \/ flow = "log" /\ pc = "returned"

\* C19: when the pool is left, the mods directory is the files that were
\* there when the tasks started plus the files of the tasks that succeeded,
\* a value that depends on the outcome of each task alone and so is the same
\* in every interleaving and order of completion.
C19_OrderIndependent ==
    PoolLeft =>
        mods = { f \in StartMods : \A g \in DoneFiles : g.name # f.name } \cup DoneFiles

\* C20: with no file cut short in the mods directory at the start, once a
\* download task has ended (and no other task is writing to the same path)
\* a file at its target path holds the whole release: a task that failed
\* after opening the target leaves no file, and a task that skipped the
\* download did not take a file cut short for an installed mod.
C20_NoPartialInstalled ==
    (\A f \in mods0 : f.full) =>
        \A i \in DOMAIN tasks :
            (/\ TaskEnded(tasks[i]) /\ tasks[i].release # << >>
             /\ \A j \in DOMAIN tasks :
                   (tasks[j].pc = "copy") =>
                       FileName(tasks[j].release[1].mainfile)
                          # FileName(tasks[i].release[1].mainfile))
            => \A f \in mods :
                  f.name = FileName(tasks[i].release[1].mainfile) => f.full

====
